---- MODULE Spec2Model ----
(***************************************************************************)
(* Half-edge mesh and quadric-error simplifier driver of MeshSimplification *)
(* (src/src/geometry/half_edge_mesh.cpp, src/example/geometry/              *)
(* mesh_simplifier.cpp).                                                    *)
(*                                                                          *)
(* Objects.  A Vertex object is identified by its id (every Vertex is       *)
(* constructed with an id no other Vertex of the call has).  A HalfEdge     *)
(* object is identified by the (tail id, head id) pair it was created for;  *)
(* its fields vertex, flip, next, face live in the store he, which keeps    *)
(* objects that were erased from the table edges_ (shared_ptr keeps them    *)
(* alive for whoever still points at them).  A Face object is identified by *)
(* its stored vertex triple.  hash_value is modelled as collision free, so  *)
(* a table key is the pair / triple itself.                                 *)
(*                                                                          *)
(* Geometry.  Positions, normals and quadric matrices are not tracked.      *)
(* What the floating point geometry decides is drawn as input: the cost of  *)
(* a contraction record (geom) and whether a rebuilt face has zero area     *)
(* (the parameter bad of an iteration).                                     *)
(***************************************************************************)
EXTENDS Integers, Sequences, FiniteSets, TLC

MaxCost == 1
CostPeriod == 3

NULL == <<>>

\* ---------------------------------------------------------------- inputs
Tetrahedron == << <<0,1,2>>, <<0,3,1>>, <<0,2,3>>, <<1,3,2>> >>
Bipyramid == << <<3,0,1>>, <<3,1,2>>, <<3,2,0>>, <<4,1,0>>, <<4,2,1>>, <<4,0,2>> >>
Octahedron == << <<4,0,2>>, <<4,2,1>>, <<4,1,3>>, <<4,3,0>>,
                 <<5,2,0>>, <<5,1,2>>, <<5,3,1>>, <<5,0,3>> >>
\* the 7-vertex torus: every two vertices are joined by an edge
Torus == << <<0,1,3>>, <<1,2,4>>, <<2,3,5>>, <<3,4,6>>, <<4,5,0>>, <<5,6,1>>, <<6,0,2>>,
            <<0,3,2>>, <<1,4,3>>, <<2,5,4>>, <<3,6,5>>, <<4,0,6>>, <<5,1,0>>, <<6,2,1>> >>
\* the 7-vertex torus after a vertex split: vertex 0 split into 0 and 7 along 1 and 6
SplitTorus == << <<1,2,4>>, <<2,3,5>>, <<3,4,6>>, <<5,6,1>>, <<1,4,3>>, <<2,5,4>>,
                 <<3,6,5>>, <<6,2,1>>, <<7,1,3>>, <<7,3,2>>, <<7,2,6>>, <<0,6,4>>,
                 <<0,4,5>>, <<0,5,1>>, <<0,1,7>>, <<7,6,0>> >>
Icosahedron == << <<0,11,5>>, <<0,5,1>>, <<0,1,7>>, <<0,7,10>>, <<0,10,11>>,
                  <<1,5,9>>, <<5,11,4>>, <<11,10,2>>, <<10,7,6>>, <<7,1,8>>,
                  <<3,9,4>>, <<3,4,2>>, <<3,2,6>>, <<3,6,8>>, <<3,8,9>>,
                  <<4,9,5>>, <<2,4,11>>, <<6,2,10>>, <<8,6,7>>, <<9,8,1>> >>
\* a tetrahedron without its last face: three boundary edges
OpenTetrahedron == << <<0,1,2>>, <<0,3,1>>, <<0,2,3>> >>
\* a tetrahedron whose second face is wound the other way: (0,1), (1,3), (3,0) occur twice
FlippedTetrahedron == << <<0,1,2>>, <<0,1,3>>, <<0,2,3>>, <<1,3,2>> >>
\* a tetrahedron whose first face is listed twice: (0,1), (1,2), (2,0) occur twice
DoubledTetrahedron == << <<0,1,2>>, <<0,3,1>>, <<0,2,3>>, <<1,3,2>>, <<0,1,2>> >>

\* an input mesh: the number n of positions, the index triples, the model transform
ClosedManifolds == { [n |-> 4, indices |-> Tetrahedron, transform |-> "scaled"],
                     [n |-> 5, indices |-> Bipyramid, transform |-> "identity"],
                     [n |-> 6, indices |-> Octahedron, transform |-> "scaled"],
                     [n |-> 7, indices |-> Torus, transform |-> "identity"],
                     [n |-> 8, indices |-> SplitTorus, transform |-> "scaled"],
                     [n |-> 12, indices |-> Icosahedron, transform |-> "identity"] }
InputMeshes ==
  ClosedManifolds \cup { [n |-> 4, indices |-> OpenTetrahedron, transform |-> "identity"],
                         [n |-> 4, indices |-> FlippedTetrahedron, transform |-> "scaled"],
                         [n |-> 4, indices |-> DoubledTetrahedron, transform |-> "identity"] }

\* rate in quarters: -1/4, 0, 1/4, 1/2, 3/4, 1, 5/4 (all exact in binary floating point)
Rates == -1 .. 5

\* ------------------------------------------------------------- small helpers
SetAt(f, x, v) == [y \in DOMAIN f \cup {x} |-> IF y = x THEN v ELSE f[y]]

Min2(a, b) == IF a < b THEN a ELSE b

KeyLess(k1, k2) == k1[1] < k2[1] \/ (k1[1] = k2[1] /\ k1[2] < k2[2])

RECURSIVE SortKeys(_)
SortKeys(S) ==
  IF S = {} THEN << >>
  ELSE LET k == CHOOSE x \in S : \A y \in S \ {x} : KeyLess(x, y)
       IN << k >> \o SortKeys(S \ {k})

\* ------------------------------------------------------------------ face.cpp
\* the constructor without the call of line 35: the vertices are stored as given
GetMinVertexOrder_AsGiven(v0, v1, v2) == <<v0, v1, v2>>

GetMinVertexOrder(v0, v1, v2) ==
  LET min_id == Min2(v0, Min2(v1, v2))
  IN IF min_id = v0 THEN <<v0, v1, v2>>
     ELSE IF min_id = v1 THEN <<v1, v2, v0>>
     ELSE <<v2, v0, v1>>

\* ------------------------------------------------------------ half_edge.h
\* hash_value(const HalfEdge&): the key (flip's head id, own head id)
HashEdge(m, e) == << m.he[m.he[e].flip].vertex, m.he[e].vertex >>

VEdge(m, v) == IF v \in DOMAIN m.vedge THEN m.vedge[v] ELSE NULL

\* -------------------------------------------------------- half_edge_mesh.cpp
\* A mesh value m: vertices (ids in vertices_), vedge (Vertex::edge_), edges (keys in
\* edges_), he (HalfEdge objects), faces (keys in faces_), err (what was thrown, "" if
\* nothing), tri / bad (faces constructed so far in this call / which construction
\* finds a zero cross product), ret (the face CreateTriangle returned).

CreateHalfEdge(m, v0, v1) ==
  LET edge01_key == <<v0, v1>>
      edge10_key == <<v1, v0>>
  IN IF m.err # "" \/ edge01_key \in m.edges THEN m
     ELSE [m EXCEPT
            !.he = [k \in DOMAIN m.he \cup {edge01_key, edge10_key} |->
                      IF k = edge01_key
                        THEN [vertex |-> v1, flip |-> edge10_key, next |-> NULL, face |-> NULL]
                      ELSE IF k = edge10_key /\ edge10_key \notin m.edges
                        THEN [vertex |-> v0, flip |-> edge01_key, next |-> NULL, face |-> NULL]
                      ELSE m.he[k]],
            !.edges = @ \cup {edge01_key, edge10_key}]

\* lines 65-71 with each vertex given the half-edge that leaves it instead of the one that
\* arrives
LinkTriangle_Leaving(m1, v0, v1, v2) ==
  [m1 EXCEPT
     !.vedge = SetAt(SetAt(SetAt(@, v0, <<v0, v1>>), v1, <<v1, v2>>), v2, <<v2, v0>>),
     !.he = [@ EXCEPT ![<<v0, v1>>].next = <<v1, v2>>,
                      ![<<v1, v2>>].next = <<v2, v0>>,
                      ![<<v2, v0>>].next = <<v0, v1>>],
     !.tri = @ + 1]

\* CreateTriangle lines 65-71 on the mesh m1 that holds the three half-edges
LinkTriangle(m1, v0, v1, v2) ==
  [m1 EXCEPT
     !.vedge = SetAt(SetAt(SetAt(@, v0, <<v2, v0>>), v1, <<v0, v1>>), v2, <<v1, v2>>),
     !.he = [@ EXCEPT ![<<v0, v1>>].next = <<v1, v2>>,
                      ![<<v1, v2>>].next = <<v2, v0>>,
                      ![<<v2, v0>>].next = <<v0, v1>>],
     !.tri = @ + 1]

\* CreateTriangle lines 73-78: the Face constructor throws on a zero cross product
MakeFace(m2, v0, v1, v2) ==
  IF m2.tri = m2.bad \/ v0 = v1 \/ v1 = v2 \/ v2 = v0
    THEN [m2 EXCEPT !.err = "DegenerateTriangle"]
  ELSE [m2 EXCEPT !.he = [@ EXCEPT ![<<v0, v1>>].face = GetMinVertexOrder(v0, v1, v2),
                                   ![<<v1, v2>>].face = GetMinVertexOrder(v0, v1, v2),
                                   ![<<v2, v0>>].face = GetMinVertexOrder(v0, v1, v2)],
                  !.ret = GetMinVertexOrder(v0, v1, v2)]

CreateTriangle(m, v0, v1, v2) ==
  IF m.err # "" THEN m
  ELSE MakeFace(LinkTriangle(CreateHalfEdge(CreateHalfEdge(CreateHalfEdge(m, v0, v1),
                                                           v1, v2), v2, v0),
                             v0, v1, v2),
                v0, v1, v2)

\* lines 104-111 without the erase of line 109: the vertex stays in the table
DeleteVertex_Kept(m, vertex) == m

DeleteVertex(m, vertex) ==
  IF m.err # "" THEN m
  ELSE IF vertex \notin m.vertices THEN [m EXCEPT !.err = "MissingVertex"]
  ELSE [m EXCEPT !.vertices = @ \ {vertex}]

\* lines 119-128 erasing the pair of the next half-edge of the triangle as well
DeleteEdge_AndNext(m, edge) ==
  IF m.err # "" THEN m
  ELSE IF m.he[edge].next = NULL THEN [m EXCEPT !.err = "ub"]
  ELSE [m EXCEPT !.edges = @ \ {HashEdge(m, edge), HashEdge(m, m.he[edge].flip),
                                HashEdge(m, m.he[edge].next),
                                HashEdge(m, m.he[m.he[edge].next].flip)}]

DeleteEdge(m, edge) ==
  IF m.err # "" THEN m
  ELSE IF HashEdge(m, edge) \notin m.edges THEN [m EXCEPT !.err = "MissingEdge"]
  ELSE IF HashEdge(m, m.he[edge].flip) \notin m.edges \ {HashEdge(m, edge)}
    THEN [m EXCEPT !.edges = @ \ {HashEdge(m, edge)}, !.err = "MissingEdge"]
  ELSE [m EXCEPT !.edges = @ \ {HashEdge(m, edge), HashEdge(m, m.he[edge].flip)}]

\* lines 136-143 without the erase: the face stays in the table
DeleteFace_Kept(m, face) == m

DeleteFace(m, face) ==
  IF m.err # "" THEN m
  ELSE IF face = NULL THEN [m EXCEPT !.err = "ub"]
  ELSE IF face \notin m.faces THEN [m EXCEPT !.err = "MissingFace"]
  ELSE [m EXCEPT !.faces = @ \ {face}]

\* the DeleteFace calls of lines 176, 258 and 259 left out
DeleteFaceOf_Skipped(m, edge) == m

\* DeleteFace(*edge->face(), faces)
DeleteFaceOf(m, edge) == DeleteFace(m, m.he[edge].face)

\* faces.emplace(hash_value(*face_new), face_new) after CreateTriangle
EmplaceFace(m) == IF m.err # "" THEN m ELSE [m EXCEPT !.faces = @ \cup {m.ret}]

\* GetHalfEdge: throws when the key is not in the table
HasHalfEdge(m, v0, v1) == <<v0, v1>> \in m.edges

RECURSIVE UpdateLoop(_, _, _, _)
UpdateLoop(m, edge0i, edge_end, v_new) ==
  IF m.err # "" THEN m
  ELSE IF edge0i = edge_end THEN DeleteEdge(m, edge_end)
  ELSE IF m.he[edge0i].next = NULL THEN [m EXCEPT !.err = "ub"]
  ELSE IF m.he[m.he[edge0i].next].next = NULL THEN [m EXCEPT !.err = "ub"]
  ELSE UpdateLoop(
         DeleteEdge(
           DeleteFaceOf(
             EmplaceFace(CreateTriangle(m, v_new, m.he[edge0i].vertex,
                                        m.he[m.he[edge0i].next].vertex)),
             edge0i),
           edge0i),
         m.he[m.he[m.he[edge0i].next].next].flip, edge_end, v_new)

UpdateIncidentTriangles(m, v_target, v_start, v_end, v_new) ==
  IF m.err # "" THEN m
  ELSE IF ~HasHalfEdge(m, v_target, v_start) \/ ~HasHalfEdge(m, v_target, v_end)
    THEN [m EXCEPT !.err = "MissingEdge"]
  ELSE UpdateLoop(m, <<v_target, v_start>>, <<v_target, v_end>>, v_new)

\* vertices_.emplace(v_new->id(), v_new)
\* CollapseEdge without line 266: the new vertex never enters the table
EmplaceVertex_Dropped(m, v_new) == m

EmplaceVertex(m, v_new) == IF m.err # "" THEN m ELSE [m EXCEPT !.vertices = @ \cup {v_new}]

\* CollapseEdge without line 261: the collapsed edge stays in the table
CollapseSteps_KeepsEdge(m, edge01, edge10, v0, v1, v0_next, v1_next, v_new) ==
  EmplaceVertex(
    DeleteVertex(
      DeleteVertex(
        DeleteFaceOf(
          DeleteFaceOf(
            UpdateIncidentTriangles(
              UpdateIncidentTriangles(m, v0, v1_next, v0_next, v_new),
              v1, v0_next, v1_next, v_new),
            edge01),
          edge10),
        v0),
      v1),
    v_new)

\* CollapseEdge lines 255-266 with the five locals of lines 249-253
CollapseSteps(m, edge01, edge10, v0, v1, v0_next, v1_next, v_new) ==
  EmplaceVertex(
    DeleteVertex(
      DeleteVertex(
        DeleteEdge(
          DeleteFaceOf(
            DeleteFaceOf(
              UpdateIncidentTriangles(
                UpdateIncidentTriangles(m, v0, v1_next, v0_next, v_new),
                v1, v0_next, v1_next, v_new),
              edge01),
            edge10),
          edge01),
        v0),
      v1),
    v_new)

CollapseEdge(m, edge01, v_new) ==
  IF m.he[m.he[edge01].flip].next = NULL \/ m.he[edge01].next = NULL
    THEN [m EXCEPT !.err = "ub"]
  ELSE CollapseSteps(m, edge01, m.he[edge01].flip,
                     m.he[m.he[edge01].flip].vertex, m.he[edge01].vertex,
                     m.he[m.he[m.he[edge01].flip].next].vertex,
                     m.he[m.he[edge01].next].vertex, v_new)

\* The do-while walk around a vertex used by ComputeQuadric, ComputeWeightedVertexNormal
\* and the driver: e, e->next()->flip(), ... until the start comes back.  need_face says
\* the body reads e->face().  st is "ok", "ub" (a null pointer is dereferenced) or "hang"
\* (the walk cycles without meeting its start).
RECURSIVE RingFrom(_, _, _, _, _)
RingFrom(m, start, e, acc, need_face) ==
  IF need_face /\ m.he[e].face = NULL THEN [st |-> "ub", es |-> acc]
  ELSE IF m.he[e].next = NULL THEN [st |-> "ub", es |-> Append(acc, e)]
  ELSE LET nxt == m.he[m.he[e].next].flip
           acc1 == Append(acc, e)
       IN IF nxt = start THEN [st |-> "ok", es |-> acc1]
          ELSE IF \E i \in 1 .. Len(acc1) : acc1[i] = nxt THEN [st |-> "hang", es |-> acc1]
          ELSE RingFrom(m, start, nxt, acc1, need_face)

Ring(m, v, need_face) ==
  IF VEdge(m, v) = NULL THEN [st |-> "ub", es |-> << >>]
  ELSE RingFrom(m, VEdge(m, v), VEdge(m, v), << >>, need_face)

\* HalfEdgeMesh::HalfEdgeMesh: the vertices, then one CreateTriangle per index triple
RECURSIVE BuildFaces(_, _, _)
BuildFaces(m, indices, i) ==
  IF i > Len(indices) \/ m.err # "" THEN m
  ELSE BuildFaces(EmplaceFace(CreateTriangle(m, indices[i][1], indices[i][2], indices[i][3])),
                  indices, i + 1)

EmptyMesh == [vertices |-> {}, vedge |-> << >>, edges |-> {}, he |-> << >>, faces |-> {},
              err |-> "", tri |-> 0, bad |-> 0, ret |-> NULL]

BuildHalfEdgeMesh(input) ==
  BuildFaces([EmptyMesh EXCEPT !.vertices = 0 .. input.n - 1,
                               !.vedge = [v \in 0 .. input.n - 1 |-> NULL]],
             input.indices, 1)

\* ------------------------------------------------------- mesh_simplifier.cpp
\* pc is the position in Simplify: "call" (not entered), "loop" (at the loop test of line
\* 193), "done" (returned), "error" (left by the exception err), "ub" (a null pointer was
\* dereferenced: undefined behaviour, not followed further), "hang" (a walk never ends).
\* collapses counts the CollapseEdge calls that returned, last tells how the most recent
\* one ended ("none", "returned", "threw") and pre holds the tables as they were when it
\* was called.
\* applied_costs lists, in order, the costs of the entries whose collapse returned.
\* top_entry is the record top() gave the last completed iteration at line 194 and
\* popped_entry the record its pop() removed at line 248 (records are named by the vertex id
\* their constructor took); both are empty before the first iteration has completed.
\* refresh_first_id is the value the id counter had when the refresh of the last applied
\* iteration began at line 224: the records of that refresh have this id or a later one.
\* quadric_values holds the matrix of every key of quadrics (the map of lines 158-161 and
\* 208 is the pair of the key set quadrics and this function).
VARIABLES pc, input, rate, geom,
          vertices_, vedge, edges_, he, faces_, model_transform_, next_vertex_id_,
          quadrics, contractions, edge_contractions, valid_edges,
          initial_face_count, err, out, collapses, last, pre, applied_costs,
          top_entry, popped_entry, refresh_first_id, quadric_values

meshVars == <<vertices_, vedge, edges_, he, faces_, model_transform_>>
vars == <<pc, input, rate, geom, vertices_, vedge, edges_, he, faces_, model_transform_,
          next_vertex_id_,
          quadrics, contractions, edge_contractions, valid_edges,
          initial_face_count, err, out, collapses, last, pre, applied_costs,
          top_entry, popped_entry, refresh_first_id, quadric_values>>

\* the half-edge mesh of the call as a value
Mesh == [vertices |-> vertices_, vedge |-> vedge, edges |-> edges_, he |-> he,
         faces |-> faces_, err |-> "", tri |-> 0, bad |-> 0, ret |-> NULL]

Tables(m) == [vertices |-> m.vertices, vedge |-> m.vedge, edges |-> m.edges,
              he |-> m.he, faces |-> m.faces]

\* GetMinEdge without the comparison of the two head ids: the half-edge as given
GetMinEdge_Same(m, edge) == edge

\* GetMinEdge with the comparison of the two head ids reversed
GetMinEdge_Larger(m, edge) ==
  LET flip == m.he[edge].flip
  IN IF m.he[flip].vertex > m.he[edge].vertex THEN flip ELSE edge

GetMinEdge(m, edge) ==
  LET flip == m.he[edge].flip
  IN IF m.he[flip].vertex < m.he[edge].vertex THEN flip ELSE edge

\* the cost GetOptimalEdgeContractionVertex computes for a record of the edge v0-v1: a
\* function of the positions and quadrics of the two endpoints, which never change once the
\* vertex exists, so a function of the two ids decided by the input geometry (the ids are
\* those of the canonical half-edge: v0 its tail, v1 its head)
CostOf(g, v0, v1) == g[(2 * v0 + v1) % CostPeriod]

\* The walks of WillDegenerate: it, it->flip()->next(), ... until stop; the heads seen.
RECURSIVE FanHeads(_, _, _, _)
FanHeads(m, it, stop, acc) ==
  IF it = NULL THEN [st |-> "ub", vs |-> acc]
  ELSE IF it = stop THEN [st |-> "ok", vs |-> acc]
  ELSE IF Len(acc) > Cardinality(DOMAIN m.he) THEN [st |-> "hang", vs |-> acc]
  ELSE FanHeads(m, m.he[m.he[it].flip].next, stop, Append(acc, m.he[it].vertex))

\* the same with the test of line 110 only leaving out v0: the wing vertices are collected
WillDegenerateRun_WingsCount(m, edge01) ==
  LET flip == m.he[edge01].flip
      v0 == m.he[flip].vertex
  IN IF m.he[edge01].next = NULL \/ m.he[flip].next = NULL
       THEN [st |-> "ub", result |-> FALSE]
     ELSE LET w1 == FanHeads(m, m.he[edge01].next, flip, << >>)
              neighborhood == {w1.vs[i] : i \in 1 .. Len(w1.vs)} \ {v0}
              w0 == FanHeads(m, m.he[flip].next, edge01, << >>)
          IN IF w1.st # "ok" THEN [st |-> w1.st, result |-> FALSE]
             ELSE IF \E i \in 1 .. Len(w0.vs) : w0.vs[i] \in neighborhood
               THEN [st |-> "ok", result |-> TRUE]
             ELSE [st |-> w0.st, result |-> FALSE]

\* st is "ok" when the walks complete (or the answer is found before they stop)
WillDegenerateRun(m, edge01) ==
  LET flip == m.he[edge01].flip
      v0 == m.he[flip].vertex
  IN IF m.he[edge01].next = NULL \/ m.he[flip].next = NULL
       THEN [st |-> "ub", result |-> FALSE]
     ELSE LET v1_next == m.he[m.he[edge01].next].vertex
              v0_next == m.he[m.he[flip].next].vertex
              w1 == FanHeads(m, m.he[edge01].next, flip, << >>)
              neighborhood == {w1.vs[i] : i \in 1 .. Len(w1.vs)} \ {v0, v1_next, v0_next}
              w0 == FanHeads(m, m.he[flip].next, edge01, << >>)
          IN IF w1.st # "ok" THEN [st |-> w1.st, result |-> FALSE]
             ELSE IF \E i \in 1 .. Len(w0.vs) : w0.vs[i] \in neighborhood
               THEN [st |-> "ok", result |-> TRUE]
             ELSE [st |-> w0.st, result |-> FALSE]

WillDegenerate(m, edge01) == WillDegenerateRun(m, edge01).result

\* std::priority_queue over a vector with kMinHeapComparator (lhs->cost > rhs->cost):
\* push is push_back + std::push_heap, pop is std::pop_heap + pop_back, top is the front.
\* h is the vector (index 1 is the front), c the records by id.
RECURSIVE PushHeapFrom(_, _, _, _)
PushHeapFrom(c, h, hole, id) ==
  IF hole > 1 /\ c[h[hole \div 2]].cost > c[id].cost
    THEN PushHeapFrom(c, [h EXCEPT ![hole] = h[hole \div 2]], hole \div 2, id)
  ELSE [h EXCEPT ![hole] = id]

PushHeap(c, h, id) == PushHeapFrom(c, Append(h, id), Len(h) + 1, id)

\* the child of hole the hole moves to: the right one unless the left one is cheaper
HeapChild(c, h, hole) ==
  IF c[h[2 * hole + 1]].cost > c[h[2 * hole]].cost THEN 2 * hole ELSE 2 * hole + 1

\* std::__adjust_heap on the first len elements: the hole goes down to a leaf, then the
\* value is pushed up from there
RECURSIVE AdjustHeap(_, _, _, _, _)
AdjustHeap(c, h, hole, len, id) ==
  IF 2 * hole + 1 <= len
    THEN AdjustHeap(c, [h EXCEPT ![hole] = h[HeapChild(c, h, hole)]],
                    HeapChild(c, h, hole), len, id)
  ELSE IF 2 * hole = len
    THEN PushHeapFrom(c, [h EXCEPT ![hole] = h[2 * hole]], 2 * hole, id)
  ELSE PushHeapFrom(c, h, hole, id)

\* pop_back without pop_heap: the last element of the vector goes, the front stays
PopHeap_Back(c, h) == SubSeq(h, 1, Len(h) - 1)

PopHeap(c, h) ==
  IF Len(h) <= 1 THEN << >>
  ELSE AdjustHeap(c, SubSeq(h, 1, Len(h) - 1), 1, Len(h) - 1, h[Len(h)])

\* The driver's containers as a value d: valid_edges, contractions, heap (the vector of the
\* priority queue), next_id, visited, err, popped (the record pop() removed).

\* the same with the id read but the counter of line 47 (half_edge_mesh.h) not advanced
NewContraction_SameId(d, m, min_edge, q) ==
  LET id == d.next_id
      v0 == m.he[m.he[min_edge].flip].vertex
      v1 == m.he[min_edge].vertex
      key == HashEdge(m, min_edge)
  IN IF v0 \notin q \/ v1 \notin q THEN [d EXCEPT !.err = "out_of_range"]
     ELSE [d EXCEPT !.contractions = SetAt(@, id, [edge |-> min_edge,
                                                   cost |-> CostOf(geom, v0, v1),
                                                   valid |-> TRUE]),
                    !.valid_edges = SetAt(@, key, id),
                    !.heap = PushHeap(SetAt(d.contractions, id,
                                            [edge |-> min_edge, cost |-> CostOf(geom, v0, v1),
                                             valid |-> TRUE]),
                                      @, id)]

\* the constructor taking two ids from the counter
NewContraction_TwoIds(d, m, min_edge, q) ==
  LET id == d.next_id
      v0 == m.he[m.he[min_edge].flip].vertex
      v1 == m.he[min_edge].vertex
      key == HashEdge(m, min_edge)
  IN IF v0 \notin q \/ v1 \notin q THEN [d EXCEPT !.next_id = id + 2, !.err = "out_of_range"]
     ELSE [d EXCEPT !.next_id = id + 2,
                    !.contractions = SetAt(@, id, [edge |-> min_edge,
                                                   cost |-> CostOf(geom, v0, v1),
                                                   valid |-> TRUE]),
                    !.valid_edges = SetAt(@, key, id),
                    !.heap = PushHeap(SetAt(d.contractions, id,
                                            [edge |-> min_edge, cost |-> CostOf(geom, v0, v1),
                                             valid |-> TRUE]),
                                      @, id)]

\* make_shared<EdgeContraction>(mesh, min_edge, quadrics), pushed and registered
NewContraction(d, m, min_edge, q) ==
  LET id == d.next_id
      v0 == m.he[m.he[min_edge].flip].vertex
      v1 == m.he[min_edge].vertex
      key == HashEdge(m, min_edge)
  IN IF v0 \notin q \/ v1 \notin q THEN [d EXCEPT !.next_id = id + 1, !.err = "out_of_range"]
     ELSE [d EXCEPT !.next_id = id + 1,
                    !.contractions = SetAt(@, id, [edge |-> min_edge,
                                                   cost |-> CostOf(geom, v0, v1),
                                                   valid |-> TRUE]),
                    !.valid_edges = SetAt(@, key, id),
                    !.heap = PushHeap(SetAt(d.contractions, id,
                                            [edge |-> min_edge, cost |-> CostOf(geom, v0, v1),
                                             valid |-> TRUE]),
                                      @, id)]

\* seeding without the test of line 178: one record per half-edge
RECURSIVE Seed_EveryHalfEdge(_, _, _, _, _)
Seed_EveryHalfEdge(d, m, es, i, q) ==
  IF i > Len(es) \/ d.err # "" THEN d
  ELSE Seed_EveryHalfEdge(NewContraction(d, m, GetMinEdge(m, es[i]), q), m, es, i + 1, q)

\* seeding: one record per canonical edge not yet in valid_edges
RECURSIVE Seed(_, _, _, _, _)
Seed(d, m, es, i, q) ==
  IF i > Len(es) \/ d.err # "" THEN d
  ELSE LET min_edge == GetMinEdge(m, es[i])
       IN Seed(IF HashEdge(m, min_edge) \in DOMAIN d.valid_edges THEN d
               ELSE NewContraction(d, m, min_edge, q),
               m, es, i + 1, q)

\* the loop without lines 211-221: nothing is erased from valid_edges
Invalidate_Nothing(d, m, es, i) == d

\* lines 211-221 without line 216: the entry leaves valid_edges with its flag still set
RECURSIVE Invalidate_KeepsFlag(_, _, _, _)
Invalidate_KeepsFlag(d, m, es, i) ==
  IF i > Len(es) THEN d
  ELSE LET key == HashEdge(m, GetMinEdge(m, es[i]))
       IN Invalidate_KeepsFlag(IF key \in DOMAIN d.valid_edges
                                 THEN [d EXCEPT !.valid_edges = [k \in DOMAIN @ \ {key} |-> @[k]]]
                               ELSE d,
                               m, es, i + 1)

\* lines 211-221: the entries of the edges around the two removed vertices
\* the invalidation loop of lines 211-221 leaving after the first edge of the ring
Invalidate_FirstOnly(d, m, es, i) ==
  IF i > Len(es) THEN d
  ELSE IF HashEdge(m, GetMinEdge(m, es[i])) \in DOMAIN d.valid_edges
    THEN [d EXCEPT !.contractions[d.valid_edges[HashEdge(m, GetMinEdge(m, es[i]))]].valid =
                     FALSE,
                   !.valid_edges = [k \in DOMAIN @ \ {HashEdge(m, GetMinEdge(m, es[i]))}
                                      |-> @[k]]]
  ELSE d

RECURSIVE Invalidate(_, _, _, _)
Invalidate(d, m, es, i) ==
  IF i > Len(es) THEN d
  ELSE LET key == HashEdge(m, GetMinEdge(m, es[i]))
       IN Invalidate(IF key \in DOMAIN d.valid_edges
                       THEN [d EXCEPT !.contractions[d.valid_edges[key]].valid = FALSE,
                                      !.valid_edges = [k \in DOMAIN @ \ {key} |-> @[k]]]
                     ELSE d,
                     m, es, i + 1)

\* lines 230-243: one inner walk of the refresh
RECURSIVE RefreshRing(_, _, _, _, _)
RefreshRing(d, m, es, i, q) ==
  IF i > Len(es) \/ d.err # "" THEN d
  ELSE LET min_edge == GetMinEdge(m, es[i])
           min_edge_key == HashEdge(m, min_edge)
       IN RefreshRing(IF min_edge_key \in d.visited THEN d
                      ELSE [NewContraction(
                              IF min_edge_key \in DOMAIN d.valid_edges
                                THEN [d EXCEPT
                                        !.contractions[d.valid_edges[min_edge_key]].valid = FALSE]
                              ELSE d,
                              m, min_edge, q)
                              EXCEPT !.visited = @ \cup {min_edge_key}],
                      m, es, i + 1, q)

\* lines 224-245: the outer walk around v_new; inner is the walk around neighbour j
RECURSIVE Refresh(_, _, _, _, _)
RECURSIVE RefreshNeighbour(_, _, _, _, _, _)
RefreshNeighbour(d, m, outer, j, q, inner) ==
  IF inner.st # "ok" THEN [RefreshRing(d, m, inner.es, 1, q) EXCEPT !.err = inner.st]
  ELSE Refresh(RefreshRing(d, m, inner.es, 1, q), m, outer, j + 1, q)

Refresh(d, m, outer, j, q) ==
  IF j > Len(outer) \/ d.err # "" THEN d
  ELSE RefreshNeighbour(d, m, outer, j, q,
                        Ring(m, m.he[m.he[outer[j]].flip].vertex, FALSE))

Driver == [valid_edges |-> valid_edges, contractions |-> contractions,
           heap |-> edge_contractions, next_id |-> next_vertex_id_,
           visited |-> {}, err |-> "", popped |-> NULL]

\* entries no shared_ptr refers to any more are destroyed
Live(d) == [id \in {d.heap[i] : i \in 1 .. Len(d.heap)}
                     \cup {d.valid_edges[k] : k \in DOMAIN d.valid_edges}
              |-> d.contractions[id]]

\* should_stop, lines 186-191, with the rate in quarters
ShouldStop(face_count) == face_count * 4 < initial_face_count * (4 - rate)

\* the loop with a handler around its body: an exception is swallowed and the loop goes on
Stopped_Caught(st) == IF st = "ub" \/ st = "hang" THEN st ELSE "loop"

\* how Simplify is left when something stops it: no try block, an exception leaves the call
Stopped(st) == IF st = "ub" \/ st = "hang" THEN st ELSE "error"

\* the first vertex, in id order, whose walk does not come back; "ok" if all do
FirstStatus(m, bad) ==
  IF bad = {} THEN "ok" ELSE Ring(m, CHOOSE v \in bad : \A w \in bad : v <= w, TRUE).st

RingsStatus(m) == FirstStatus(m, {v \in m.vertices : Ring(m, v, TRUE).st # "ok"})

\* index_map counted from 1 instead of 0
IndexOf_FromOne(id) == Cardinality({v \in vertices_ : v <= id})

\* position of a vertex id in the ascending walk over vertices_ (index_map)
IndexOf(id) == Cardinality({v \in vertices_ : v < id})

\* the walk over vertices_ taken from the largest id down
RECURSIVE InIdOrder_Descending(_)
InIdOrder_Descending(S) ==
  IF S = {} THEN << >>
  ELSE LET v == CHOOSE x \in S : \A y \in S : x >= y
       IN <<v>> \o InIdOrder_Descending(S \ {v})

\* the walk over vertices_, a std::map: the ids in ascending order
RECURSIVE InIdOrder(_)
InIdOrder(S) ==
  IF S = {} THEN << >>
  ELSE LET v == CHOOSE x \in S : \A y \in S : x <= y IN <<v>> \o InIdOrder(S \ {v})

\* The normal a face keeps and the position of a vertex of the input, as integer vectors
\* decided by the ids (the floating-point values themselves are not part of the state); the
\* normal of a face is never the zero vector (face.cpp lines 42-44).
FaceNormal(f) == <<f[1] - f[2], f[2] - f[3], f[3] - f[1]>>

Position(v) == <<v, 1, v % 2>>

Dot(a, b) == a[1] * b[1] + a[2] * b[2] + a[3] * b[3]

\* line 52: vec4 plane{normal, -dot(position, normal)}
Plane(m, v, e) ==
  <<FaceNormal(m.he[e].face)[1], FaceNormal(m.he[e].face)[2], FaceNormal(m.he[e].face)[3],
    0 - Dot(Position(v), FaceNormal(m.he[e].face))>>

\* outerProduct with the second factor rotated by one component
OuterProduct_Shifted(c, r) == [i \in 1 .. 4 |-> [j \in 1 .. 4 |-> c[j] * r[(i % 4) + 1]]]

\* glm::outerProduct(c, r): column i is c * r[i]
OuterProduct(c, r) == [i \in 1 .. 4 |-> [j \in 1 .. 4 |-> c[j] * r[i]]]

\* mat4 operator+, entry by entry
MatAdd(a, b) == [i \in 1 .. 4 |-> [j \in 1 .. 4 |-> a[i][j] + b[i][j]]]

\* mat4{0.f}
ZeroMat == [i \in 1 .. 4 |-> [j \in 1 .. 4 |-> 0]]

\* lines 49-55: the loop of ComputeQuadric over the ring es of vertex v
RECURSIVE QuadricSum(_, _, _, _, _)
QuadricSum(m, v, es, i, quadric) ==
  IF i > Len(es) THEN quadric
  ELSE QuadricSum(m, v, es, i + 1,
                  MatAdd(quadric, OuterProduct(Plane(m, v, es[i]), Plane(m, v, es[i]))))

\* ComputeQuadric, lines 46-57 (called at line 160 once every ring has been found walkable)
ComputeQuadric(m, v) == QuadricSum(m, v, Ring(m, v, TRUE).es, 1, ZeroMat)

\* unordered_map::emplace: the entry is added unless the key is present
Emplace(q, key, value) ==
  IF key \in DOMAIN q THEN q
  ELSE [k \in DOMAIN q \cup {key} |-> IF k = key THEN value ELSE q[k]]

NoTables == [vertices |-> {}, vedge |-> << >>, edges |-> {}, he |-> << >>, faces |-> {}]

Init ==
  /\ pc = "call"
  /\ input \in InputMeshes
  /\ rate \in Rates
  /\ geom \in [0 .. CostPeriod - 1 -> 0 .. MaxCost]
  /\ vertices_ = {} /\ vedge = << >> /\ edges_ = {} /\ he = << >> /\ faces_ = {}
  /\ model_transform_ = NULL
  /\ next_vertex_id_ = 0
  /\ quadrics = {} /\ contractions = << >> /\ edge_contractions = << >> /\ valid_edges = << >>
  /\ initial_face_count = 0
  /\ err = "" /\ out = NULL /\ collapses = 0 /\ last = "none" /\ pre = NoTables
  /\ applied_costs = << >>
  /\ top_entry = << >> /\ popped_entry = << >> /\ refresh_first_id = 0
  /\ quadric_values = << >>

\* lines 155-191 on the built mesh m: rs is the outcome of the ComputeQuadric walks, d the
\* driver after seeding
StartSeeded(m, rs, d) ==
  /\ vertices_' = m.vertices /\ vedge' = m.vedge /\ edges_' = m.edges
  /\ he' = m.he /\ faces_' = m.faces
  /\ model_transform_' = input.transform
  /\ IF rs # "ok"
       THEN /\ pc' = rs /\ err' = rs
            /\ next_vertex_id_' = input.n
            /\ UNCHANGED <<quadrics, quadric_values, contractions, edge_contractions, valid_edges,
                           initial_face_count>>
     ELSE /\ pc' = "loop" /\ err' = ""
          /\ quadrics' = m.vertices
          /\ quadric_values' = [v \in m.vertices |-> ComputeQuadric(m, v)]
          /\ next_vertex_id_' = d.next_id
          /\ contractions' = d.contractions
          /\ edge_contractions' = d.heap
          /\ valid_edges' = d.valid_edges
          /\ initial_face_count' = Cardinality(m.faces)

StartBuilt(m) ==
  IF m.err # ""
    THEN /\ pc' = Stopped(m.err) /\ err' = m.err
         /\ UNCHANGED <<meshVars, next_vertex_id_, quadrics, quadric_values, contractions,
                        edge_contractions, valid_edges, initial_face_count>>
  ELSE StartSeeded(m, RingsStatus(m),
                   Seed([Driver EXCEPT !.next_id = input.n], m, SortKeys(m.edges), 1,
                        m.vertices))

\* line 150 with the upper comparison made non-strict: rate 1 is refused too
InvalidRate_RefusesOne(r) == r < 0 \/ r >= 4

\* line 150, with the rate in quarters
InvalidRate(r) == r < 0 \/ r > 4

\* Simplify, lines 148-191: rate check, build, quadrics, seeding, target
Start ==
  /\ pc = "call"
  /\ UNCHANGED <<input, rate, geom, out, collapses, last, pre, applied_costs, top_entry,
                 popped_entry, refresh_first_id>>
  /\ IF InvalidRate(rate)
       THEN /\ pc' = "error" /\ err' = "InvalidRate"
            /\ UNCHANGED <<meshVars, next_vertex_id_, quadrics, quadric_values, contractions,
                           edge_contractions, valid_edges, initial_face_count>>
     ELSE StartBuilt(BuildHalfEdgeMesh(input))

\* an iteration whose top entry is stale or rejected by WillDegenerate: only the pop
Skip ==
  /\ pc = "loop" /\ edge_contractions # << >> /\ ~ShouldStop(Cardinality(faces_))
  /\ \/ ~contractions[edge_contractions[1]].valid
     \/ WillDegenerate(Mesh, contractions[edge_contractions[1]].edge)
  /\ edge_contractions' = PopHeap(contractions, edge_contractions)
  /\ contractions' = Live([Driver EXCEPT !.heap = PopHeap(contractions, edge_contractions)])
  /\ top_entry' = <<edge_contractions[1]>> /\ popped_entry' = <<edge_contractions[1]>>
  /\ UNCHANGED <<pc, input, rate, geom, meshVars, next_vertex_id_, quadrics, quadric_values, valid_edges,
                 initial_face_count, err, out, collapses, last, pre, applied_costs,
                 refresh_first_id>>

\* The outcome of an applied iteration: the mesh m, the driver d, what stopped it (st, ""
\* if nothing) and whether CollapseEdge returned.
Outcome(m, d, st, applied) == [m |-> m, d |-> d, st |-> st, applied |-> applied]

\* line 248: pop() after the pushes of the refresh
AfterRefresh(m, d2) ==
  Outcome(m, IF d2.err # "" THEN d2
             ELSE [d2 EXCEPT !.heap = PopHeap(d2.contractions, @), !.popped = d2.heap[1]],
          d2.err, TRUE)

\* lines 211-245; r0, r1 and outer are the walks around v0, v1 and v_new
AfterRings(m, top, r0, r1, outer) ==
  IF r0.st # "ok" THEN Outcome(m, Driver, r0.st, TRUE)
  ELSE IF r1.st # "ok" THEN Outcome(m, Driver, r1.st, TRUE)
  ELSE IF outer.st # "ok" THEN Outcome(m, Driver, outer.st, TRUE)
  ELSE AfterRefresh(m, Refresh(Invalidate(Invalidate(Driver, m, r0.es, 1), m, r1.es, 1),
                               m, outer.es, 1, quadrics \cup {top}))

\* lines 205-208 after CollapseEdge
AfterCollapse(m, top, v0, v1) ==
  IF m.err # "" THEN Outcome(m, Driver, m.err, FALSE)
  ELSE IF v0 \notin quadrics \/ v1 \notin quadrics
    THEN Outcome(m, Driver, "out_of_range", TRUE)
  ELSE AfterRings(m, top, Ring(m, v0, FALSE), Ring(m, v1, FALSE), Ring(m, top, FALSE))

\* lines 199-245 for the top entry; bad says which rebuilt face, if any, has zero area
ApplyTop(top, bad) ==
  AfterCollapse(CollapseEdge([Mesh EXCEPT !.bad = bad], contractions[top].edge, top),
                top,
                he[he[contractions[top].edge].flip].vertex,
                he[contractions[top].edge].vertex)

Commit(it, top, bad) ==
  /\ it.m.tri >= bad
  /\ vertices_' = it.m.vertices /\ vedge' = it.m.vedge /\ edges_' = it.m.edges
  /\ he' = it.m.he /\ faces_' = it.m.faces
  /\ UNCHANGED model_transform_
  /\ collapses' = IF it.applied THEN collapses + 1 ELSE collapses
  /\ last' = IF it.applied THEN "returned" ELSE "threw"
  /\ applied_costs' = IF it.applied THEN Append(applied_costs, contractions[top].cost)
                    ELSE applied_costs
  /\ IF it.st # ""
       THEN /\ pc' = Stopped(it.st) /\ err' = it.st
            /\ UNCHANGED <<next_vertex_id_, quadrics, quadric_values, contractions, edge_contractions,
                           valid_edges, top_entry, popped_entry, refresh_first_id>>
     ELSE /\ pc' = "loop" /\ err' = ""
          /\ quadrics' = quadrics \cup {top}
          /\ quadric_values' =
               Emplace(quadric_values, top,
                       MatAdd(quadric_values[he[he[contractions[top].edge].flip].vertex],
                              quadric_values[he[contractions[top].edge].vertex]))
          /\ next_vertex_id_' = it.d.next_id
          /\ contractions' = Live(it.d)
          /\ edge_contractions' = it.d.heap
          /\ valid_edges' = it.d.valid_edges
          /\ top_entry' = <<top>> /\ popped_entry' = <<it.d.popped>>
          /\ refresh_first_id' = next_vertex_id_

\* an iteration that applies its top entry, lines 198-248
Collapse ==
  /\ pc = "loop" /\ edge_contractions # << >> /\ ~ShouldStop(Cardinality(faces_))
  /\ UNCHANGED <<input, rate, geom, initial_face_count, out>>
  /\ contractions[edge_contractions[1]].valid
  /\ ~WillDegenerate(Mesh, contractions[edge_contractions[1]].edge)
  /\ pre' = Tables(Mesh)
  /\ IF WillDegenerateRun(Mesh, contractions[edge_contractions[1]].edge).st # "ok"
       THEN /\ pc' = WillDegenerateRun(Mesh, contractions[edge_contractions[1]].edge).st
            /\ err' = pc'
            /\ UNCHANGED <<meshVars, next_vertex_id_, quadrics, quadric_values, contractions,
                           edge_contractions, valid_edges, collapses, last, applied_costs,
                           top_entry, popped_entry, refresh_first_id>>
     ELSE \E bad \in 0 .. Cardinality(faces_) :
            Commit(ApplyTop(edge_contractions[1], bad), edge_contractions[1], bad)

\* operator Mesh with line 245 passing no model transform: the Mesh gets the default one
ExportMesh_DefaultTransform(rs) ==
  IF rs # "ok" THEN pc' = rs /\ err' = rs /\ out' = out
  ELSE IF \E f \in faces_ : \E i \in 1 .. 3 : f[i] \notin vertices_
    THEN pc' = "error" /\ err' = "out_of_range" /\ out' = out
  ELSE IF vertices_ = {}
    THEN pc' = "error" /\ err' = "InvalidMesh" /\ out' = out
  ELSE /\ pc' = "done" /\ err' = ""
       /\ out' = [n |-> Cardinality(vertices_),
                  positions |-> InIdOrder(vertices_),
                  texture_coordinates |-> << >>,
                  normals |-> InIdOrder(vertices_),
                  indices |-> {<<IndexOf(f[1]), IndexOf(f[2]), IndexOf(f[3])>> :
                                 f \in faces_},
                  model_transform |-> "identity"]

\* operator Mesh, lines 221-246, on the outcome rs of the ComputeWeightedVertexNormal walks:
\* a position and a normal per vertex in id order (each named by its vertex), no texture
\* coordinates, an index triple per face; the Mesh constructor refuses an empty position
\* list (mesh.cpp line 25)
ExportMesh(rs) ==
  IF rs # "ok" THEN pc' = rs /\ err' = rs /\ out' = out
  ELSE IF \E f \in faces_ : \E i \in 1 .. 3 : f[i] \notin vertices_
    THEN pc' = "error" /\ err' = "out_of_range" /\ out' = out
  ELSE IF vertices_ = {}
    THEN pc' = "error" /\ err' = "InvalidMesh" /\ out' = out
  ELSE /\ pc' = "done" /\ err' = ""
       /\ out' = [n |-> Cardinality(vertices_),
                  positions |-> InIdOrder(vertices_),
                  texture_coordinates |-> << >>,
                  normals |-> InIdOrder(vertices_),
                  indices |-> {<<IndexOf(f[1]), IndexOf(f[2]), IndexOf(f[3])>> :
                                 f \in faces_},
                  model_transform |-> model_transform_]

\* lines 251-258: the loop has ended
Export ==
  /\ pc = "loop" /\ (edge_contractions = << >> \/ ShouldStop(Cardinality(faces_)))
  /\ ExportMesh(RingsStatus(Mesh))
  /\ UNCHANGED <<input, rate, geom, meshVars, next_vertex_id_, quadrics, quadric_values, contractions,
                 edge_contractions, valid_edges, initial_face_count, collapses, last,
                 pre, applied_costs, top_entry, popped_entry, refresh_first_id>>

Next == Start \/ Skip \/ Collapse \/ Export

Spec == Init /\ [][Next]_vars

\* ------------------------------------------------------------------ properties
Triangles(in) == {in.indices[i] : i \in 1 .. Len(in.indices)}

DirectedEdges(t) == { <<t[1], t[2]>>, <<t[2], t[3]>>, <<t[3], t[1]>> }

\* some directed pair is an edge of two triangles of the input
DuplicateDirectedEdge(in) ==
  \E i, j \in 1 .. Len(in.indices) :
    i < j /\ DirectedEdges(in.indices[i]) \cap DirectedEdges(in.indices[j]) # {}

\* some directed pair of the input has no oppositely directed partner
HasBoundary(in) ==
  \E t \in Triangles(in) : \E e \in DirectedEdges(t) :
    \A u \in Triangles(in) : <<e[2], e[1]>> \notin DirectedEdges(u)

ValidRate == rate \in 0 .. 4

\* the mesh is the one the constructor or a CollapseEdge call that returned has left
MeshSettled == pc # "call" /\ last # "threw"

\* C1: at rate 0 no collapse is applied; the returned mesh has the vertices and the
\* triangles of the closed manifold input.
C1_RateZeroIsIdentity ==
  (pc = "done" /\ rate = 0 /\ input \in ClosedManifolds) =>
    /\ collapses = 0
    /\ out.n = input.n
    /\ out.indices = {GetMinVertexOrder(t[1], t[2], t[3]) : t \in Triangles(input)}

\* C2: the returned mesh of a closed manifold input has at least F0 * (1 - rate) - 1
\* faces.
C2_TargetBound ==
  (pc = "done" /\ input \in ClosedManifolds) =>
    4 * Cardinality(out.indices) >= initial_face_count * (4 - rate) - 4

TriangleClosed(e) ==
  /\ he[e].next # NULL
  /\ he[he[e].next].next # NULL
  /\ he[he[he[e].next].next].next = e
  /\ he[e].face # NULL
  /\ he[he[e].next].face = he[e].face
  /\ he[he[he[e].next].next].face = he[e].face
  /\ he[e].face \in faces_

\* C3: after every CollapseEdge the loop applied, every half-edge e of the table has
\* e.flip.flip = e, e.next.next.next = e, and e, e.next, e.next.next have one face, which
\* is in the face table.
C3_ManifoldClosure ==
  (last = "returned") =>
    \A e \in edges_ : he[he[e].flip].flip = e /\ TriangleClosed(e)

C3_Witness == last = "returned" /\ collapses >= 2 /\ Cardinality(faces_) >= 4

Incident(v) ==
  /\ VEdge(Mesh, v) # NULL
  /\ VEdge(Mesh, v) \in edges_
  /\ he[VEdge(Mesh, v)].vertex = v

\* C4: after construction and after every applied collapse, every vertex of the table has
\* an incident half-edge that is in the edge table and whose head is the vertex.
C4_VertexIncidence ==
  (MeshSettled /\ input \in ClosedManifolds) => \A v \in vertices_ : Incident(v)

RingEdges(v) == LET r == Ring(Mesh, v, FALSE) IN {r.es[i] : i \in 1 .. Len(r.es)}

\* C5: after any sequence of accepted collapses of a closed manifold, every edge has its
\* two half-edges in the table, each with a face of the table; the walk around every
\* vertex closes and meets all half-edges that point at it; every face has exactly its
\* three half-edges.
C5_Manifoldness ==
  (MeshSettled /\ input \in ClosedManifolds) =>
    /\ \A e \in edges_ : /\ HashEdge(Mesh, e) = e
                          /\ he[e].flip \in edges_
                          /\ he[e].face \in faces_
    /\ \A v \in vertices_ : /\ Ring(Mesh, v, FALSE).st = "ok"
                             /\ RingEdges(v) = {e \in edges_ : he[e].vertex = v}
    /\ \A f \in faces_ : Cardinality({e \in edges_ : he[e].face = f}) = 3

\* C6: on a closed manifold input with a rate in [0,1] Simplify never stops in a null
\* dereference or an endless walk, and it returns only with the face count below the
\* target or the queue empty.
C6_TerminatesNormally ==
  (input \in ClosedManifolds /\ ValidRate) =>
    /\ pc \notin {"ub", "hang"}
    /\ pc = "done" => (ShouldStop(Cardinality(faces_)) \/ edge_contractions = << >>)

C7_RateChecked ==
  /\ (pc # "call" /\ ~ValidRate) =>
       /\ pc = "error" /\ err = "InvalidRate"
       /\ Tables(Mesh) = NoTables /\ collapses = 0 /\ last = "none"
       /\ edge_contractions = << >> /\ out = NULL
  /\ ValidRate => err # "InvalidRate"

\* C7: a rate below 0 or above 1 ends the call with InvalidRate before any mesh is built
\* or any collapse attempted, every rate of [0,1] passes, and the input is never changed.
C7_InvalidRate == []C7_RateChecked /\ [][input' = input]_vars

C7_Witness == pc = "error" /\ err = "InvalidRate" /\ rate = 5 /\ input \in ClosedManifolds

\* C8: an input in which a directed pair occurs in two triangles is refused with
\* NonManifoldInput.
C8_DuplicateEdgeRejected ==
  (pc # "call" /\ ValidRate /\ DuplicateDirectedEdge(input)) =>
    pc = "error" /\ err = "NonManifoldInput"

\* C9: an input with a boundary edge is refused with NonManifoldInput at build time.
C9_BoundaryRejected ==
  (pc # "call" /\ ValidRate /\ HasBoundary(input) /\ ~DuplicateDirectedEdge(input)) =>
    pc = "error" /\ err = "NonManifoldInput"

\* C10: a CollapseEdge call that fails leaves the tables and all links as they were
\* before the call.
C10_CollapseAtomic == (last = "threw") => Tables(Mesh) = pre

\* the exceptions CollapseEdge lets out (face.cpp line 43, half_edge_mesh.cpp lines 107,
\* 123, 139)
CollapseErrors == {"DegenerateTriangle", "MissingVertex", "MissingEdge", "MissingFace"}

C11_Raised == (last = "threw") => (pc = "error" /\ err \in CollapseErrors /\ out = NULL)

\* C11: an error raised by CollapseEdge or the Face constructor inside the loop leaves
\* Simplify as that error: nothing is returned, no further step of the call is taken after
\* it, and the caller's input mesh is what it was.
C11_ErrorPropagates ==
  []C11_Raised /\ [][pc # "error" /\ (last' = "threw" => input' = input)]_vars

C11_Witness == last = "threw" /\ collapses >= 1 /\ err = "DegenerateTriangle"

\* genus of a closed input surface
Genus(in) == IF in.indices \in {Torus, SplitTorus} THEN 1 ELSE 0

\* undirected edges of a set of index triples
UndirectedEdges(ts) == UNION { { {t[1], t[2]}, {t[2], t[3]}, {t[3], t[1]} } : t \in ts }

\* C12: for a closed input of genus g, V - E + F = 2 - 2g for the mesh as built, after
\* every applied collapse, and for the returned mesh (E is half the number of half-edges).
C12_EulerCharacteristic ==
  (input \in ClosedManifolds) =>
    /\ (vertices_ # {} /\ last # "threw") =>
         2 * Cardinality(vertices_) - Cardinality(edges_) + 2 * Cardinality(faces_)
           = 2 * (2 - 2 * Genus(input))
    /\ (pc = "done") =>
         out.n - Cardinality(UndirectedEdges(out.indices)) + Cardinality(out.indices)
           = 2 - 2 * Genus(input)

C12_Witness == /\ input \in ClosedManifolds /\ Genus(input) = 1
               /\ pc = "done" /\ collapses >= 1

\* C13: no iteration of the loop increases the number of faces, and the returned mesh
\* has at most as many faces as the input has triangles.
C13_FaceCountMonotone ==
  /\ [][pc = "loop" => Cardinality(faces_') <= Cardinality(faces_)]_vars
  /\ [](pc = "done" => Cardinality(out.indices) <= Len(input.indices))

C13_Witness == pc = "done" /\ collapses >= 2 /\ Cardinality(out.indices) < Len(input.indices)

\* C14: a vertex that a loop iteration inserts has an id that is at least the number of
\* input positions, that the counter has already passed, and that no vertex which is or
\* ever was in the table has (quadrics keeps the id of every vertex ever in the table);
\* the vertices of the table as built are the input positions 0 .. N-1.
C14_FreshVertexIds ==
  /\ [][pc = "loop" => \A v \in vertices_' \ vertices_ :
                          /\ v >= input.n
                          /\ v < next_vertex_id_
                          /\ v \notin quadrics
                          /\ v \notin vertices_]_vars
  /\ [](pc = "loop" => /\ vertices_ \subseteq quadrics
                       /\ \A v \in quadrics : v < next_vertex_id_
                       /\ next_vertex_id_ >= input.n)

C14_Witness == pc = "loop" /\ collapses >= 2 /\ \E v \in vertices_ : v >= input.n + 2

\* C15: the costs of the applied entries, in the order of their application, never
\* decrease: whenever a collapse has been applied after another, its cost is at least the
\* cost of the one before.
C15_CostNonDecrease ==
  (Len(applied_costs) >= 2) =>
    applied_costs[Len(applied_costs) - 1] <= applied_costs[Len(applied_costs)]

C16_Seeded ==
  (pc = "call" /\ pc' = "loop") =>
    /\ 2 * Len(edge_contractions') = Cardinality(edges_')
    /\ 2 * Len(edge_contractions') = 3 * initial_face_count'

C16_Iteration ==
  (pc = "loop" /\ pc' = "loop") =>
    /\ 2 * Len(edge_contractions') <= 2 * Len(edge_contractions) + Cardinality(edges_') - 2
    /\ (collapses' = collapses) => Len(edge_contractions') = Len(edge_contractions) - 1

C17_ValidEdgesExist ==
  (pc = "loop") =>
    \A k \in DOMAIN valid_edges : k \in edges_ /\ GetMinEdge(Mesh, k) = k

C17_Witness == /\ pc = "loop" /\ collapses >= 2 /\ DOMAIN valid_edges # {}
               /\ \E k \in DOMAIN valid_edges : k[1] >= input.n

\* C18: in the returned mesh the positions are those of the vertices of the table in
\* ascending id order, there is one index triple per face, naming the positions of the
\* face's three vertices, and every index is in 0 .. N-1, N the number of positions.
C18_ExportIndexed ==
  (pc = "done") =>
    /\ out.n = Len(out.positions)
    /\ {out.positions[i] : i \in 1 .. out.n} = vertices_
    /\ \A i, j \in 1 .. out.n : i < j => out.positions[i] < out.positions[j]
    /\ Cardinality(out.indices) = Cardinality(faces_)
    /\ \A t \in out.indices :
         /\ \A k \in 1 .. 3 : t[k] \in 0 .. out.n - 1
         /\ <<out.positions[t[1] + 1], out.positions[t[2] + 1], out.positions[t[3] + 1]>>
              \in faces_

C18_Witness == /\ pc = "done" /\ collapses >= 2 /\ Cardinality(out.indices) >= 4
               /\ \E i \in 1 .. out.n : out.positions[i] >= input.n

\* C19: the returned mesh has the model transform of the input, no texture coordinates,
\* and one normal for each position.
C19_ExportFrame ==
  (pc = "done") =>
    /\ out.model_transform = input.transform
    /\ out.texture_coordinates = << >>
    /\ Len(out.normals) = Len(out.positions)

C19_Witness == pc = "done" /\ collapses >= 1 /\ input.transform = "scaled"

\* C20: the octahedron simplified at rate 0.5 comes back, whatever the costs, with exactly
\* 4 faces that form a closed manifold (every directed edge of a face has its opposite in
\* exactly one other face) with V - E + F = 2.
C20_OctahedronHalf ==
  (pc = "done" /\ input.indices = Octahedron /\ rate = 2) =>
    /\ Cardinality(out.indices) = 4
    /\ \A t \in out.indices : \A e \in DirectedEdges(t) :
         Cardinality({u \in out.indices : <<e[2], e[1]>> \in DirectedEdges(u)}) = 1
    /\ out.n - Cardinality(UndirectedEdges(out.indices)) + Cardinality(out.indices) = 2

\* C21: the closed tetrahedron simplified at rate 1: the call never stops in an error, a
\* null dereference or an endless walk, what it returns has 0 or 2 faces, and in every
\* state the mesh is left in by the constructor or a collapse each vertex has an incident
\* half-edge of the table that points at it and the walk around it closes.
C21_TetrahedronFull ==
  (input.indices = Tetrahedron /\ rate = 4) =>
    /\ pc \notin {"error", "ub", "hang"}
    /\ (pc = "done") => Cardinality(out.indices) \in {0, 2}
    /\ MeshSettled => \A v \in vertices_ : Incident(v) /\ Ring(Mesh, v, FALSE).st = "ok"

\* C22: the record that the pop ending an iteration removes is the record the iteration
\* was given by top() at its start, also when the refresh pushed records that cost less.
C22_PopsPeeked == (popped_entry # << >>) => popped_entry = top_entry

\* the loop test of line 193 and the test of line 198 pass: CollapseEdge is about to be
\* called with the edge and the vertex of the top entry
CollapseCalled ==
  /\ pc = "loop" /\ edge_contractions # << >> /\ ~ShouldStop(Cardinality(faces_))
  /\ contractions[edge_contractions[1]].valid
  /\ ~WillDegenerate(Mesh, contractions[edge_contractions[1]].edge)

\* both half-edges of e are in the table and both endpoints are vertices of the mesh
EdgeLive(e) ==
  /\ e \in edges_ /\ he[e].flip \in edges_
  /\ he[e].vertex \in vertices_ /\ he[he[e].flip].vertex \in vertices_

\* C23: whenever CollapseEdge is called for the top entry, both half-edges of the entry's
\* edge are in the edge table, both endpoints are in the vertex table and the id of the
\* entry's vertex is not; and at every iteration boundary no queue entry whose flag is set
\* refers to an edge that a collapse has removed.
C23_LazyInvalidationSafe ==
  (pc = "loop") =>
    /\ CollapseCalled => /\ EdgeLive(contractions[edge_contractions[1]].edge)
                         /\ edge_contractions[1] \notin vertices_
    /\ \A i \in 1 .. Len(edge_contractions) :
         contractions[edge_contractions[i]].valid =>
           EdgeLive(contractions[edge_contractions[i]].edge)

C23_Witness ==
  /\ CollapseCalled /\ collapses >= 1
  /\ \E i \in 1 .. Len(edge_contractions) :
       /\ ~contractions[edge_contractions[i]].valid
       /\ contractions[edge_contractions[i]].edge \notin edges_

\* vertices joined to v by an edge of the table
Neighbours(v) == {he[e].vertex : e \in {x \in edges_ : he[he[x].flip].vertex = v}}

\* the canonical half-edges of the edges with an end at v_new or at a neighbour of v_new
RefreshedEdges(v_new) ==
  {e \in edges_ : /\ GetMinEdge(Mesh, e) = e
                  /\ {he[e].vertex, he[he[e].flip].vertex}
                       \cap ({v_new} \cup Neighbours(v_new)) # {}}

\* the positions of the queue that hold a flagged entry for the edge e
ValidEntriesOf(e) ==
  {i \in 1 .. Len(edge_contractions) :
     contractions[edge_contractions[i]].valid /\ contractions[edge_contractions[i]].edge = e}

\* the edges around the new vertex top_entry[1] each have their one current entry
C24_Refreshed ==
  \A e \in RefreshedEdges(top_entry[1]) :
    /\ Cardinality(ValidEntriesOf(e)) = 1
    /\ e \in DOMAIN valid_edges
    /\ \A i \in ValidEntriesOf(e) : edge_contractions[i] = valid_edges[e]
    /\ valid_edges[e] >= refresh_first_id
    /\ top_entry[1] \in quadrics

\* C24: when an iteration that applied a collapse has ended (after its pop), every edge
\* with an end at the new vertex or at one of its neighbours has exactly one flagged entry
\* in the queue, valid_edges holds that entry under the edge's canonical key, and the entry
\* was made by this iteration's refresh, after the quadric of the new vertex was stored.
C24_RefreshPostcondition ==
  [][(pc' = "loop" /\ collapses' = collapses + 1) => C24_Refreshed']_vars

\* the face f with its vertex v replaced by w, in the same winding
Replaced(f, v, w) ==
  GetMinVertexOrder(IF f[1] = v THEN w ELSE f[1], IF f[2] = v THEN w ELSE f[2],
                    IF f[3] = v THEN w ELSE f[3])

FaceVertices(f) == {f[1], f[2], f[3]}

\* what the face table should be after the collapse of v0-v1 into v_new
CollapsedFaces(fs, v0, v1, v_new) ==
  {f \in fs : FaceVertices(f) \cap {v0, v1} = {}}
    \cup {Replaced(f, v0, v_new) : f \in {g \in fs : FaceVertices(g) \cap {v0, v1} = {v0}}}
    \cup {Replaced(f, v1, v_new) : f \in {g \in fs : FaceVertices(g) \cap {v0, v1} = {v1}}}

\* the step is a CollapseEdge call that returned; e01 and v_new are its arguments
C25_Effect(e01, v_new) ==
  /\ faces_' = CollapsedFaces(faces_, he[he[e01].flip].vertex, he[e01].vertex, v_new)
  /\ vertices_' = (vertices_ \ {he[he[e01].flip].vertex, he[e01].vertex}) \cup {v_new}
  /\ {he[he[e01].flip].vertex, he[e01].vertex} \subseteq vertices_
  /\ v_new \notin vertices_

\* C25: a CollapseEdge(e01, v_new) call that the driver makes (WillDegenerate has accepted
\* e01) and that returns leaves as faces the faces that had neither endpoint of e01 and,
\* for each face that had exactly one endpoint, that face with the endpoint replaced by
\* v_new in the same winding; the faces with both endpoints are gone; the endpoints have
\* left the vertex table and v_new has entered it.
C25_CollapseTopology ==
  [][(collapses' = collapses + 1) =>
       C25_Effect(contractions[edge_contractions[1]].edge, edge_contractions[1])]_vars

C25_Witness ==
  /\ last = "returned" /\ collapses >= 2 /\ Cardinality(pre.faces) >= 8
  /\ pre.faces \cap faces_ # {}
  /\ \E f \in faces_ \ pre.faces : \E i, j \in 1 .. 3 : i # j /\ f[i] >= input.n /\ f[j] >= input.n

\* the face f has neither endpoint of the half-edge e01
Outside(f, e01) == FaceVertices(f) \cap {he[he[e01].flip].vertex, he[e01].vertex} = {}

\* the step leaves what lies outside the neighbourhood of e01 as it is
C26_Kept(e01) ==
  /\ vertices_ \ {he[he[e01].flip].vertex, he[e01].vertex} \subseteq vertices_'
  /\ \A f \in faces_ : Outside(f, e01) => f \in faces_'
  /\ \A e \in edges_ :
       (he[e].face # NULL /\ Outside(he[e].face, e01)) => (e \in edges_' /\ he'[e] = he[e])

\* C26: a CollapseEdge call of the driver, whether it returns or throws, keeps every vertex
\* other than the two endpoints in the vertex table, keeps every face that has neither
\* endpoint in the face table, and keeps in the edge table, with its head, next, flip and
\* face unchanged, every half-edge whose face has neither endpoint.
C26_CollapseFrame ==
  [][CollapseCalled => C26_Kept(contractions[edge_contractions[1]].edge)]_vars

C26_Witness ==
  /\ last = "returned" /\ collapses >= 2
  /\ \E e \in edges_ \cap pre.edges :
       /\ he[e].face \in pre.faces
       /\ \E v \in pre.vertices \ vertices_ : v \notin FaceVertices(he[e].face)
       /\ he[e] = pre.he[e]
  /\ Cardinality(pre.vertices \cap vertices_) >= 4

\* C27: every collapse the simplifier applies to a closed manifold takes exactly two faces
\* out of the face table, exactly three undirected edges (six entries) out of the edge
\* table, and makes the vertex table exactly one smaller.
C27_CollapseCounts ==
  [][(input \in ClosedManifolds /\ collapses' = collapses + 1) =>
       /\ Cardinality(faces_') = Cardinality(faces_) - 2
       /\ Cardinality(edges_') = Cardinality(edges_) - 6
       /\ Cardinality(vertices_') = Cardinality(vertices_) - 1]_vars

C27_Witness ==
  /\ input \in ClosedManifolds /\ last = "returned" /\ collapses >= 3
  /\ Cardinality(faces_) = Len(input.indices) - 2 * collapses
  /\ Cardinality(faces_) >= 2

\* the apexes of the two triangles at the half-edge e
Wings(e) == {he[he[e].next].vertex, he[he[he[e].flip].next].vertex}

\* the endpoints of e have a common neighbour that is not a wing vertex
LinkViolated(e) ==
  (Neighbours(he[e].vertex) \cap Neighbours(he[he[e].flip].vertex)) \ Wings(e) # {}

C28_Decides ==
  (input \in ClosedManifolds /\ pc \in {"loop", "done"}) =>
    \A e \in edges_ : /\ WillDegenerateRun(Mesh, e).st = "ok"
                      /\ WillDegenerate(Mesh, e) = LinkViolated(e)

Entries(h) == {h[i] : i \in 1 .. Len(h)}

\* the loop body is entered and the test of line 198 fails for the top entry
SkipCalled ==
  /\ pc = "loop" /\ edge_contractions # << >> /\ ~ShouldStop(Cardinality(faces_))
  /\ \/ ~contractions[edge_contractions[1]].valid
     \/ WillDegenerate(Mesh, contractions[edge_contractions[1]].edge)

C29_OnlyPops ==
  /\ UNCHANGED <<meshVars, quadrics, valid_edges, next_vertex_id_, pc>>
  /\ Len(edge_contractions') = Len(edge_contractions) - 1
  /\ Entries(edge_contractions') = Entries(edge_contractions) \ {edge_contractions[1]}
  /\ \A id \in DOMAIN contractions' : contractions'[id] = contractions[id]
  /\ contractions[edge_contractions[1]].valid =>
       /\ HashEdge(Mesh, contractions[edge_contractions[1]].edge) \in DOMAIN valid_edges'
       /\ valid_edges'[HashEdge(Mesh, contractions[edge_contractions[1]].edge)]
            = edge_contractions[1]
       /\ contractions'[edge_contractions[1]].valid

\* C29: an iteration whose top entry is stale or is rejected by WillDegenerate only removes
\* that entry from the queue: the mesh tables, the quadrics, valid_edges and the flag of
\* every entry stay as they were, so a rejected entry is still the one valid_edges holds for
\* its edge, with its flag set, while it is no longer in the queue.
C29_SkipFrame == [][SkipCalled => C29_OnlyPops]_vars

C29_Witness ==
  /\ pc = "loop" /\ collapses >= 1 /\ top_entry # << >> /\ popped_entry = top_entry
  /\ top_entry[1] \notin Entries(edge_contractions)
  /\ \E k \in DOMAIN valid_edges : valid_edges[k] = top_entry[1] /\ k[1] >= input.n
  /\ \E id \in Entries(edge_contractions) : ~contractions[id].valid

\* the half-edge e points at the endpoint with the smaller id
Canonical(e) == he[e].vertex < he[he[e].flip].vertex

\* the seeding loop has run and no iteration of the main loop has completed yet
Seeded == pc = "loop" /\ top_entry = << >>

\* C30: between the seeding pass and the first iteration the queue holds one entry for each
\* undirected edge of the mesh (half as many as there are half-edges) and no other; every
\* entry has its flag set and its edge is the canonical half-edge of an edge of the table;
\* valid_edges maps the key of each canonical half-edge to the entry of that edge.
C30_Seeding ==
  Seeded =>
    /\ 2 * Len(edge_contractions) = Cardinality(edges_)
    /\ Cardinality(Entries(edge_contractions)) = Len(edge_contractions)
    /\ {contractions[id].edge : id \in Entries(edge_contractions)}
         = {e \in edges_ : Canonical(e)}
    /\ \A id \in Entries(edge_contractions) : contractions[id].valid
    /\ DOMAIN valid_edges = {e \in edges_ : Canonical(e)}
    /\ \A k \in DOMAIN valid_edges :
         /\ valid_edges[k] \in Entries(edge_contractions)
         /\ contractions[valid_edges[k]].edge = k

C30_Witness ==
  /\ Seeded /\ input \in ClosedManifolds /\ Len(edge_contractions) >= 24
  /\ contractions[edge_contractions[1]].cost = 0
  /\ \E id \in Entries(edge_contractions) : contractions[id].cost > 0

\* the constructor has run for a closed manifold and no collapse has been tried
Built == /\ pc # "call" /\ ValidRate /\ input \in ClosedManifolds
         /\ collapses = 0 /\ last = "none"

\* C31: the mesh constructed from a closed manifold with N positions and F triangles has
\* the vertices 0 .. N-1, F faces and 3F half-edges; every half-edge is the flip of its
\* flip, closes a triangle with one face of the table, and every vertex has an incident
\* half-edge of the table that points at it; the id counter is N when the constructor
\* returns, so the records of the seeding pass take the ids N, N+1, ... .
C31_BuildPostcondition ==
  Built =>
    /\ vertices_ = 0 .. input.n - 1
    /\ Cardinality(faces_) = Len(input.indices)
    /\ Cardinality(edges_) = 3 * Len(input.indices)
    /\ \A e \in edges_ : /\ he[he[e].flip].flip = e
                          /\ he[e].flip # e
                          /\ TriangleClosed(e)
    /\ \A v \in vertices_ : Incident(v)
    /\ Seeded => /\ Entries(edge_contractions)
                      = input.n .. input.n + Len(edge_contractions) - 1
                 /\ next_vertex_id_ = input.n + Len(edge_contractions)

C31_Witness ==
  /\ Built /\ Seeded /\ Genus(input) = 1 /\ vertices_ = 0 .. 7
  /\ Cardinality(edges_) = 48

\* u is t or one of its two other cyclic rotations
IsRotation(u, t) == u \in {t, <<t[2], t[3], t[1]>>, <<t[3], t[1], t[2]>>}

\* C32: a closed manifold that is built and exported without any applied collapse comes
\* back with its positions in their order (position i is the input's position i) and with
\* one triangle for each input triangle and no other: the cyclic rotation of the input
\* triple that begins with its smallest index.
C32_RoundTrip ==
  (pc = "done" /\ collapses = 0 /\ input \in ClosedManifolds) =>
    /\ out.positions = [i \in 1 .. input.n |-> i - 1]
    /\ Cardinality(out.indices) = Len(input.indices)
    /\ \A t \in Triangles(input) :
         \E u \in out.indices : IsRotation(u, t) /\ u[1] < u[2] /\ u[1] < u[3]
    /\ \A u \in out.indices : \E t \in Triangles(input) : IsRotation(u, t)

C32_Witness ==
  /\ pc = "done" /\ collapses = 0 /\ input \in ClosedManifolds
  /\ edge_contractions = << >> /\ Cardinality(out.indices) = 14
  /\ <<0, 3, 2>> \in out.indices /\ <<0, 6, 4>> \in out.indices

\* the triple Face(a, b, c) stores begins with the smallest id and is a rotation of (a, b, c)
C33_Stored(a, b, c) ==
  /\ IsRotation(GetMinVertexOrder(a, b, c), <<a, b, c>>)
  /\ GetMinVertexOrder(a, b, c)[1] < GetMinVertexOrder(a, b, c)[2]
  /\ GetMinVertexOrder(a, b, c)[1] < GetMinVertexOrder(a, b, c)[3]
  /\ GetMinVertexOrder(b, c, a) = GetMinVertexOrder(a, b, c)
  /\ GetMinVertexOrder(c, a, b) = GetMinVertexOrder(a, b, c)
  /\ GetMinVertexOrder(a, c, b) # GetMinVertexOrder(a, b, c)

\* C33: for all pairwise distinct ids a, b, c of vertices of the mesh (every such triple is
\* a rotation of an ascending triple or of its mirror image), Face(a, b, c) stores
\* the rotation of (a, b, c) that begins with the smallest id, the three rotations store the
\* same triple (hence have the same key, the key being computed from the stored triple) and
\* Face(a, c, b) stores another; every face of the table is stored in that form.
C33_FaceRotation ==
  /\ \A a, b, c \in vertices_ :
       (a < b /\ b < c) => C33_Stored(a, b, c) /\ C33_Stored(a, c, b)
  /\ \A f \in faces_ : f[1] < f[2] /\ f[1] < f[3]

C33_Witness ==
  /\ pc = "loop" /\ collapses >= 2 /\ Cardinality(vertices_) >= 5
  /\ \E f \in faces_ : f[2] >= input.n /\ f[3] < f[2] /\ f[3] > f[1]

\* the two endpoints of the edge of every record of the driver have an entry in the table
C34_EndpointsPresent ==
  \A id \in DOMAIN contractions :
    /\ he[contractions[id].edge].vertex \in DOMAIN quadric_values
    /\ he[he[contractions[id].edge].flip].vertex \in DOMAIN quadric_values

C34_Symmetric(q) == \A i, j \in 1 .. 4 : q[i][j] = q[j][i]

\* the entry the applied iteration added for its new vertex is, entry by entry, the sum of
\* the entries the two endpoints of the collapsed edge had before, and no entry changed
C34_SumStored ==
  /\ quadrics' = quadrics \cup {top_entry'[1]}
  /\ \A i, j \in 1 .. 4 :
       quadric_values'[top_entry'[1]][i][j] =
         quadric_values[he[he[contractions[top_entry'[1]].edge].flip].vertex][i][j]
           + quadric_values[he[contractions[top_entry'[1]].edge].vertex][i][j]
  /\ \A v \in DOMAIN quadric_values : quadric_values'[v] = quadric_values[v]

\* C34: no lookup in the quadric table ever fails (no call stops with out_of_range, and
\* both endpoints of the edge of every record have an entry); the entry of the vertex an
\* applied iteration creates is Q[v0] + Q[v1] of the collapsed edge (v0, v1) as they were
\* when the iteration began; the table has a matrix for each of its keys and every matrix
\* in it equals its own transpose.
C34_QuadricTable ==
  /\ [](/\ err # "out_of_range"
        /\ DOMAIN quadric_values = quadrics
        /\ pc = "loop" => C34_EndpointsPresent
        /\ \A v \in DOMAIN quadric_values : C34_Symmetric(quadric_values[v]))
  /\ [][(pc' = "loop" /\ collapses' = collapses + 1) => C34_SumStored]_vars

C34_Witness ==
  /\ pc = "loop" /\ collapses >= 2 /\ top_entry # << >>
  /\ top_entry[1] \in DOMAIN quadric_values
  /\ quadric_values[top_entry[1]][1][4] # 0
  /\ quadric_values[top_entry[1]][2][3] # 0
  /\ \E v \in vertices_ : v >= input.n /\ v # top_entry[1]
  /\ C34_EndpointsPresent /\ edge_contractions # << >>

\* the validity-map keys of the edges of the one-rings of the two endpoints of the edge of
\* record top, on the mesh as it is
OldRingKeys(top) ==
  {HashEdge(Mesh, GetMinEdge(Mesh, e)) :
     e \in RingEdges(he[he[contractions[top].edge].flip].vertex)
             \cup RingEdges(he[contractions[top].edge].vertex)}

\* after the step, the new vertex of record top has its quadric, no key of the old rings is
\* left in the validity map and no record of an edge of the old rings is flagged valid
C35_Prepared(top) ==
  /\ top \in quadrics'
  /\ OldRingKeys(top) \cap DOMAIN valid_edges' = {}
  /\ \A id \in DOMAIN contractions \cap DOMAIN contractions' :
       HashEdge(Mesh, GetMinEdge(Mesh, contractions[id].edge)) \in OldRingKeys(top)
         => ~contractions'[id].valid

\* C35: in an applied iteration the quadric of v_new is recorded and the entries of all
\* edges of the old one-rings of v0 and v1 are marked invalid and taken out of the validity
\* map before CollapseEdge mutates the mesh: whenever a step has called CollapseEdge and
\* the mesh tables have changed, the quadric is in the table and those entries are invalid
\* and unregistered, however CollapseEdge ended.
C35_PreparedBeforeCollapse ==
  [][(CollapseCalled /\ meshVars' # meshVars) => C35_Prepared(edge_contractions[1])]_vars

\* C35 as the code has it: CollapseEdge is called first (line 203) and the quadric and the
\* invalidation follow only when it returns (lines 206-221). In a step whose CollapseEdge
\* returned and whose iteration completed, the quadric of v_new is in the table and the
\* entries of the edges of the old one-rings of v0 and v1 are invalid and unregistered; in
\* a step whose CollapseEdge threw, the quadric table, the validity map, the queue and the
\* flags are as they were, v_new has no quadric and the applied entry is still valid.
C35_CollapseFirst ==
  [][/\ (CollapseCalled /\ pc' = "loop" /\ collapses' = collapses + 1)
          => C35_Prepared(edge_contractions[1])
     /\ (CollapseCalled /\ last' = "threw")
          => /\ UNCHANGED <<quadrics, quadric_values, valid_edges, contractions,
                            edge_contractions>>
             /\ edge_contractions[1] \notin quadrics'
             /\ contractions'[edge_contractions[1]].valid]_vars

C35_Witness ==
  /\ pc = "error" /\ last = "threw" /\ collapses >= 1 /\ Tables(Mesh) # pre
  /\ edge_contractions # << >>
  /\ contractions[edge_contractions[1]].valid
  /\ edge_contractions[1] \notin quadrics
  /\ top_entry # << >> /\ top_entry[1] \in quadrics

\* the ids of the vertices the applied collapses have inserted so far
Inserted == quadrics \ (0 .. input.n - 1)

\* C36: a vertex id is allocated only when a collapse is applied, not when a record is
\* computed: from the end of seeding on, next_vertex_id is N plus the number of applied
\* collapses (N right after seeding) and the vertices inserted so far have the ids
\* N .. N + k - 1, the latest one the largest.
C36_IdPerCollapse ==
  (pc \in {"loop", "done"}) =>
    /\ next_vertex_id_ = input.n + collapses
    /\ Inserted = input.n .. input.n + collapses - 1
    /\ collapses >= 1 => top_entry # << >> /\ top_entry[1] = input.n + collapses - 1

\* the records constructed by the step: those with an id the counter had not yet given
C36_Constructed ==
  {id \in DOMAIN contractions' \cup Entries(popped_entry') : id >= next_vertex_id_}

\* C36 as the code has it: the constructor of every contraction record takes an id (line
\* 128), so the counter counts records. After seeding it is N plus the number of undirected
\* edges; a skipped iteration leaves it alone; an applied iteration raises it by the number
\* of records its refresh constructed, which have the ids in between, and inserts the
\* vertex of the applied record under the id that record took when it was constructed: an
\* id from N up, below the counter, not used by any vertex inserted before, and in general
\* not N + k - 1.
C36_IdPerRecord ==
  /\ [](Seeded => /\ next_vertex_id_ = input.n + Cardinality(UndirectedEdges(Triangles(input)))
                  /\ next_vertex_id_ > input.n + collapses)
  /\ [](pc \in {"loop", "done"} => /\ Cardinality(Inserted) = collapses
                                   /\ \A v \in Inserted : v < next_vertex_id_
                                   /\ next_vertex_id_ > input.n + collapses)
  /\ [][/\ SkipCalled => next_vertex_id_' = next_vertex_id_
        /\ (CollapseCalled /\ pc' = "loop" /\ collapses' = collapses + 1)
             => /\ C36_Constructed = next_vertex_id_ .. next_vertex_id_' - 1
                /\ Inserted' = Inserted \cup {edge_contractions[1]}
                /\ edge_contractions[1] \notin Inserted
                /\ edge_contractions[1] \in input.n .. next_vertex_id_ - 1
                /\ edge_contractions[1] \in vertices_']_vars

C36_Witness ==
  /\ pc = "loop" /\ collapses = 2 /\ top_entry # << >>
  /\ \E v \in Inserted : v > top_entry[1]
  /\ Inserted \subseteq vertices_
  /\ next_vertex_id_ > input.n + Cardinality(UndirectedEdges(Triangles(input))) + 2

\* e and f are the two half-edges of one undirected edge, with heads of different ids
C37_IsPair(e, f) ==
  /\ f # NULL /\ he[e].flip = f /\ he[f].flip = e
  /\ he[e].vertex # he[f].vertex

\* C37: for every half-edge e of the mesh whose two endpoints have different ids,
\* GetMinEdge(e) and GetMinEdge(e.flip) are the same half-edge, the one of the two whose
\* head has the smaller id, and so the two directions have one and the same validity-map
\* key (larger id, smaller id).
C37_CanonicalEdge ==
  \A e \in edges_ :
    C37_IsPair(e, he[e].flip) =>
      /\ GetMinEdge(Mesh, e) = GetMinEdge(Mesh, he[e].flip)
      /\ GetMinEdge(Mesh, e) = IF he[e].vertex < he[he[e].flip].vertex THEN e
                               ELSE he[e].flip
      /\ HashEdge(Mesh, GetMinEdge(Mesh, he[e].flip))
           = IF he[e].vertex < he[he[e].flip].vertex
               THEN <<he[he[e].flip].vertex, he[e].vertex>>
             ELSE <<he[e].vertex, he[he[e].flip].vertex>>

C37_Witness ==
  /\ pc = "loop" /\ collapses >= 1
  /\ \E e \in edges_ :
       /\ C37_IsPair(e, he[e].flip)
       /\ he[e].vertex >= input.n
       /\ GetMinEdge(Mesh, e) = he[e].flip
       /\ GetMinEdge(Mesh, he[e].flip) = he[e].flip
  /\ \A e \in edges_ : C37_IsPair(e, he[e].flip)

====
